---- MODULE Spec2Model ----
(***************************************************************************)
(* AgentOps: the Supervisor's incident store client and bus publisher, the *)
(* Fixer's push endpoint and pull subscriber, and the Cloud Run executor   *)
(* (traffic rollback, scaling bounds), as a state machine.                 *)
(*                                                                         *)
(* Python dicts are functions whose domain is the set of keys present;     *)
(* dict.get(k, d) is Get.  Timestamps carry the type they are stored with: *)
(* a datetime (the Fixer's writes) or an ISO string (the Supervisor's      *)
(* model_dump(mode='json')).                                               *)
(***************************************************************************)
EXTENDS Integers, FiniteSets, Sequences, TLC

VARIABLES
    now,        \* wall clock in seconds (datetime.utcnow())
    dry_run,    \* CloudRunManager.dry_run, read once at start
    svc,        \* control plane: traffic and scaling of the deployed service
    cpWrites,   \* number of update_service calls issued to the control plane
    lastExec,   \* the last executor call: what it was given, what it sent
    incidents,  \* document store, collection "incidents": id -> document
    actions,    \* document store, collection "actions": key -> audit document
    bus,        \* envelopes published on the topic
    acked,      \* envelopes the Fixer acknowledged
    deliveries, \* number of deliveries the bus has made
    subscription, \* how the bus delivers to the Fixer: "push" or "pull"
    fx,         \* the Fixer's handler in flight
    fixerWrote, \* incident ids whose status the Fixer has written
    lastRun,    \* the envelope the Fixer executed last
    scan,       \* the Supervisor's last health assessment or scan report
    reco,       \* the Reasoner's last analyze_and_recommend call
    pub,        \* the Publisher's last publish_action call
    conc        \* executor calls in flight at the same time: caller -> call

vars == <<now, dry_run, svc, cpWrites, lastExec, incidents, actions, bus,
          acked, deliveries, subscription, fx, fixerWrote, lastRun, scan,
          reco, pub, conc>>

----------------------------------------------------------------------------
(* Bounds of the model *)

MaxClock == 1
MaxDeliveries == 2
MaxCalls == 3
MaxPublished == 2

(* Program constants *)

MIN_INSTANCES_FLOOR == 0
MIN_INSTANCES_CEILING == 5
MAX_INSTANCES_FLOOR == 10
MAX_INSTANCES_CEILING == 100
ROLLBACK_PERCENTAGE == 100
DEFAULT_MAX_INSTANCES == 100

----------------------------------------------------------------------------
(* Values *)

None == [t |-> "none"]
IntV(n) == [t |-> "int", v |-> n]
Dt(n) == [t |-> "datetime", v |-> n]
IsoStr(n) == [t |-> "str", v |-> n]

Get(d, k, default) == IF k \in DOMAIN d THEN d[k] ELSE default

Merge(d, u) ==
    [k \in (DOMAIN d) \cup (DOMAIN u) |-> IF k \in DOMAIN u THEN u[k] ELSE d[k]]

Max2(a, b) == IF a >= b THEN a ELSE b
Min2(a, b) == IF a <= b THEN a ELSE b

----------------------------------------------------------------------------
(* Control plane: one deployed service with two revisions.  A service name *)
(* other than SERVICE is not found (get_service returns None).             *)

SERVICE == "svcA"
GHOST == "ghost"
ServiceNames == {SERVICE, GHOST}
Revisions == {"r1", "r2"}
NoRevision == "None"

RevisionTargetHalved(rev, pct) ==
    [type |-> "REVISION", revision |-> rev, percent |-> pct \div 2]

RevisionTarget(rev, pct) == [type |-> "REVISION", revision |-> rev, percent |-> pct]
LatestTarget(pct) == [type |-> "LATEST", revision |-> "", percent |-> pct]

(* CloudRunManager._get_traffic_split: targets without a revision are skipped *)
_get_traffic_split(s) ==
    {<<t.revision, t.percent>> : t \in {u \in s.traffic : u.revision # ""}}

(* CloudRunManager._get_service: None for a service that does not exist *)
_get_service(service_name) == service_name = SERVICE

(* CloudRunManager.list_revisions *)
list_revisions(service_name) == IF service_name = SERVICE THEN Revisions ELSE {}

(* An executor call ends by raising or by returning a result dict; svc is  *)
(* the control plane after it, wrote tells whether update_service was sent *)
Raised(msg, s) ==
    [raised |-> TRUE, message |-> msg, result |-> None, svc |-> s, wrote |-> FALSE]
Returned(res, s, w) ==
    [raised |-> FALSE, message |-> "", result |-> res, svc |-> s, wrote |-> w]

rollback_traffic_no_dry_run(s, dry, service_name, target_revision, percentage) ==
    IF ~_get_service(service_name)
    THEN Raised("Service not found", s)
    ELSE IF target_revision \notin list_revisions(service_name)
    THEN Raised("Target revision not found", s)
    ELSE LET new == [s EXCEPT !.traffic = {RevisionTarget(target_revision, percentage)}]
         IN  Returned([success |-> TRUE, service |-> service_name,
                       target_revision |-> target_revision,
                       old_traffic |-> _get_traffic_split(s),
                       new_traffic |-> _get_traffic_split(new)], new, TRUE)

(* CloudRunManager.rollback_traffic *)
rollback_traffic(s, dry, service_name, target_revision, percentage) ==
    IF ~_get_service(service_name)
    THEN Raised("Service not found", s)
    ELSE IF target_revision \notin list_revisions(service_name)
    THEN Raised("Target revision not found", s)
    ELSE IF dry
    THEN Returned([dry_run |-> TRUE, service |-> service_name,
                   target_revision |-> target_revision,
                   old_traffic |-> _get_traffic_split(s),
                   new_traffic |-> {<<target_revision, percentage>>}], s, FALSE)
    ELSE LET new == [s EXCEPT !.traffic = {RevisionTarget(target_revision, percentage)}]
         IN  Returned([success |-> TRUE, service |-> service_name,
                       target_revision |-> target_revision,
                       old_traffic |-> _get_traffic_split(s),
                       new_traffic |-> _get_traffic_split(new)], new, TRUE)

(* The safety limits of update_scaling *)
ClampMinNoCeiling(v) == Max2(MIN_INSTANCES_FLOOR, v)

ClampMin(v) == Max2(MIN_INSTANCES_FLOOR, Min2(v, MIN_INSTANCES_CEILING))

ClampMax(v) == Max2(MAX_INSTANCES_FLOOR, Min2(v, MAX_INSTANCES_CEILING))

(* "if current_scaling": a scaling message with no field set is falsy *)
ScalingSet(s) == s.min # 0 \/ s.max # 0

ValidScalingUnchecked(effective_min, effective_max) == TRUE

(* update_scaling's validation of the effective bounds *)
ValidScaling(effective_min, effective_max) == ~(effective_min > effective_max)

(* a variant that builds a fresh scaling message from the arguments *)
ScalingAfterFreshMessage(s, min_c, max_c) ==
    [s EXCEPT !.min = IF min_c # None THEN min_c.v ELSE 0,
              !.max = IF max_c # None THEN max_c.v ELSE 0]

(* update_scaling: only the bounds supplied are set on the service read *)
ScalingAfter(s, min_c, max_c) ==
    [s EXCEPT !.min = IF min_c # None THEN min_c.v ELSE @,
              !.max = IF max_c # None THEN max_c.v ELSE @]

(* CloudRunManager.update_scaling; min_instances, max_instances: None or IntV(n) *)
update_scaling(s, dry, service_name, min_instances, max_instances) ==
    IF ~_get_service(service_name)
    THEN Raised("Service not found", s)
    ELSE LET old_min == IF ScalingSet(s) THEN s.min ELSE 0
             old_max == IF ScalingSet(s) THEN s.max ELSE DEFAULT_MAX_INSTANCES
             min_c == IF min_instances # None THEN IntV(ClampMin(min_instances.v)) ELSE None
             max_c == IF max_instances # None THEN IntV(ClampMax(max_instances.v)) ELSE None
             effective_min == IF min_c # None THEN min_c.v ELSE old_min
             effective_max == IF max_c # None THEN max_c.v ELSE old_max
             new == ScalingAfter(s, min_c, max_c)
         IN  IF ~ValidScaling(effective_min, effective_max)
             THEN Raised("min_instances cannot be greater than max_instances", s)
             ELSE IF dry
             THEN Returned([dry_run |-> TRUE, service |-> service_name,
                            old_min |-> old_min, old_max |-> old_max,
                            new_min |-> effective_min, new_max |-> effective_max],
                           s, FALSE)
             ELSE Returned([success |-> TRUE, service |-> service_name,
                            old_min |-> old_min, old_max |-> old_max,
                            new_min |-> IF ScalingSet(new) THEN new.min ELSE 0,
                            new_max |-> IF ScalingSet(new) THEN new.max
                                        ELSE DEFAULT_MAX_INSTANCES],
                           new, TRUE)

----------------------------------------------------------------------------
(* The bus payload: ActionRequest.model_dump_json() carries every field,   *)
(* the optional ones as null.                                              *)

ActionTypes == {"ROLLBACK", "SCALE_UP", "SCALE_DOWN", "REDEPLOY", "NONE"}

IncidentId(service_name, t) == [service |-> service_name, ts |-> t]

(* The incident followed is the one detected at time 0; documents with     *)
(* other ids are not touched by any operation on it                        *)
IncidentIds == {IncidentId(SERVICE, 0)}

ScaleParams ==
    {None, [min_instances |-> 20, max_instances |-> 500], [min_instances |-> 5]}

Envelope(id, service_name, action_type, target_revision, scale_params) ==
    [incident_id |-> id, service_name |-> service_name, action_type |-> action_type,
     target_revision |-> target_revision, scale_params |-> scale_params]

EnvelopeIncident == IncidentId(SERVICE, 0)

Envelopes ==
    {Envelope(EnvelopeIncident, SERVICE, "ROLLBACK", r, None) :
        r \in {"r1", "r9", NoRevision}}
    \cup {Envelope(EnvelopeIncident, GHOST, "ROLLBACK", "r1", None)}
    \cup {Envelope(EnvelopeIncident, SERVICE, "SCALE_UP", NoRevision, p) :
        p \in ScaleParams}
    \cup {Envelope(EnvelopeIncident, SERVICE, "SCALE_DOWN", NoRevision,
                   [min_instances |-> 5])}
    \cup {Envelope(EnvelopeIncident, SERVICE, a, NoRevision, None) :
        a \in {"REDEPLOY", "NONE"}}

NoEnvelope == [t |-> "none"]

(* Requests that are not an envelope: a payload that cannot be decoded     *)
(* (bad base64, invalid JSON, fields failing validation), and an HTTP body *)
(* without the "message" field                                             *)
Poison == [t |-> "poison"]
NoMessage == [t |-> "no_message"]

----------------------------------------------------------------------------
(* Fixer, push endpoint: main.execute_cloud_run_action.  It never raises:  *)
(* every exception becomes a failure result.                               *)

Failure(msg, s) ==
    [result |-> [success |-> FALSE, message |-> msg], svc |-> s, wrote |-> FALSE]

FromExecutor(o) ==
    IF o.raised
    THEN [result |-> [success |-> FALSE, message |-> o.message],
          svc |-> o.svc, wrote |-> o.wrote]
    ELSE [result |-> o.result, svc |-> o.svc, wrote |-> o.wrote]

ParamOf(scale_params, k) ==
    IF k \in DOMAIN scale_params THEN IntV(scale_params[k]) ELSE None

(* a variant in which an action type without a handler is answered with a *)
(* control-plane update of the unchanged service                           *)
UnhandledActionRedeploys(s, action_type) ==
    IF action_type = "NONE"
    THEN [result |-> [success |-> TRUE, message |-> "No action required"],
          svc |-> s, wrote |-> FALSE]
    ELSE [result |-> [success |-> TRUE, message |-> "Redeployed"],
          svc |-> s, wrote |-> TRUE]

(* main.execute_cloud_run_action: the last two branches of the dispatch,   *)
(* NONE and every action type without a handler                            *)
UnhandledAction(s, action_type) ==
    IF action_type = "NONE"
    THEN [result |-> [success |-> TRUE, message |-> "No action required"],
          svc |-> s, wrote |-> FALSE]
    ELSE Failure("Unknown action type", s)

execute_cloud_run_action(s, dry, action_data) ==
    LET action_type == action_data.action_type
    IN  IF action_type = "ROLLBACK"
        THEN IF action_data.target_revision = NoRevision
             THEN Failure("target_revision is required for ROLLBACK", s)
             ELSE FromExecutor(rollback_traffic(s, dry, action_data.service_name,
                                   action_data.target_revision, ROLLBACK_PERCENTAGE))
        ELSE IF action_type \in {"SCALE_UP", "SCALE_DOWN"}
        THEN IF action_data.scale_params = None
             THEN Failure("'NoneType' object has no attribute 'get'", s)
             ELSE FromExecutor(update_scaling(s, dry, action_data.service_name,
                                   ParamOf(action_data.scale_params, "min_instances"),
                                   ParamOf(action_data.scale_params, "max_instances")))
        ELSE UnhandledAction(s, action_type)

(* execute_cloud_run_action entered its except branch: the executor (or   *)
(* scale_params.get on None) raised while the envelope was handled         *)
ExecuteRaised(s, dry, action_data) ==
    LET action_type == action_data.action_type
    IN  IF action_type = "ROLLBACK"
        THEN /\ action_data.target_revision # NoRevision
             /\ rollback_traffic(s, dry, action_data.service_name,
                                 action_data.target_revision, ROLLBACK_PERCENTAGE).raised
        ELSE IF action_type \in {"SCALE_UP", "SCALE_DOWN"}
        THEN \/ action_data.scale_params = None
             \/ update_scaling(s, dry, action_data.service_name,
                     ParamOf(action_data.scale_params, "min_instances"),
                     ParamOf(action_data.scale_params, "max_instances")).raised
        ELSE FALSE

(* result.get("success", False) *)
ResultSuccess(result) == Get(result, "success", FALSE)

----------------------------------------------------------------------------
(* Fixer, pull subscriber: PubSubSubscriber.process_action and the         *)
(* _execute_* helpers.  An exception makes the ActionResult FAILED.        *)

ActionSuccess(s, w) == [status |-> "success", error_message |-> "", svc |-> s, wrote |-> w]
ActionFailed(msg, s, w) == [status |-> "failed", error_message |-> msg, svc |-> s, wrote |-> w]

FromExecutorPull(o) ==
    IF o.raised THEN ActionFailed(o.message, o.svc, o.wrote)
    ELSE ActionSuccess(o.svc, o.wrote)

(* int(x * 1.5) and int(x * 0.7) for the non-negative counts read back *)
TimesOneAndHalf(x) == (3 * x) \div 2
TimesSevenTenths(x) == (7 * x) \div 10

Max3(a, b, c) == Max2(a, Max2(b, c))

_execute_rollback(s, dry, action_request) ==
    IF action_request.target_revision = NoRevision
    THEN ActionFailed("target_revision is required for ROLLBACK action", s, FALSE)
    ELSE FromExecutorPull(rollback_traffic(s, dry, action_request.service_name,
                              action_request.target_revision, ROLLBACK_PERCENTAGE))

(* get_service_info raises for a service that is not found *)
_execute_scale_up(s, dry, action_request) ==
    IF ~_get_service(action_request.service_name)
    THEN ActionFailed("Service not found", s, FALSE)
    ELSE LET old_min == IF ScalingSet(s) THEN s.min ELSE 0
             old_max == IF ScalingSet(s) THEN s.max ELSE DEFAULT_MAX_INSTANCES
             new_min == Max2(old_min + 2, TimesOneAndHalf(old_min))
             new_max == Max2(old_max + 5, TimesOneAndHalf(old_max))
         IN  FromExecutorPull(update_scaling(s, dry, action_request.service_name,
                                  IntV(new_min), IntV(new_max)))

_execute_scale_down(s, dry, action_request) ==
    IF ~_get_service(action_request.service_name)
    THEN ActionFailed("Service not found", s, FALSE)
    ELSE LET old_min == IF ScalingSet(s) THEN s.min ELSE 0
             old_max == IF ScalingSet(s) THEN s.max ELSE DEFAULT_MAX_INSTANCES
             new_min == Max3(0, old_min - 2, TimesSevenTenths(old_min))
             new_max == Max3(10, old_max - 5, TimesSevenTenths(old_max))
         IN  FromExecutorPull(update_scaling(s, dry, action_request.service_name,
                                  IntV(new_min), IntV(new_max)))

process_action(s, dry, action_request) ==
    LET action_type == action_request.action_type
    IN  IF action_type = "ROLLBACK" THEN _execute_rollback(s, dry, action_request)
        ELSE IF action_type = "SCALE_UP" THEN _execute_scale_up(s, dry, action_request)
        ELSE IF action_type = "SCALE_DOWN" THEN _execute_scale_down(s, dry, action_request)
        ELSE ActionSuccess(s, FALSE)

----------------------------------------------------------------------------
(* Document store.  A document is a dict; NoDoc stands for "not exists".   *)

NoDoc == [t |-> "nodoc"]
Terminal == {"resolved", "failed"}

(* FirestoreClient.create_incident: the Incident written with set(); the   *)
(* datetimes are dumped as ISO strings by model_dump(mode='json')          *)
NewIncident(service_name, t) ==
    [id |-> IncidentId(service_name, t), service_name |-> service_name,
     status |-> "detected", started_at |-> IsoStr(t), ended_at |-> None,
     action_taken |-> None, mttr_seconds |-> None]

(* FirestoreClient.update_incident: document.update(updates) raises        *)
(* NotFound for a document that does not exist                             *)
update_incident(doc, updates) ==
    IF doc = NoDoc THEN doc ELSE Merge(doc, updates)

(* datetime.utcnow() - x: a TypeError unless x is a datetime *)
CanSubtract(x) == x.t = "datetime"

(* FirestoreUpdater.update_incident_status raises inside its try block     *)
(* (logged and swallowed, nothing written) when the MTTR cannot be computed *)
StatusUpdateRaises(doc, status) ==
    /\ doc # NoDoc
    /\ status = "resolved"
    /\ Get(doc, "detected_at", None) # None
    /\ ~CanSubtract(Get(doc, "detected_at", None))

(* FirestoreUpdater.update_incident_status: the document it leaves *)
update_incident_status(doc, incident_id, status, action_result, error_message, t) ==
    IF doc = NoDoc
    THEN [id |-> incident_id, status |-> status,
          created_at |-> Dt(t), updated_at |-> Dt(t)]
    ELSE IF StatusUpdateRaises(doc, status) THEN doc
    ELSE LET base == [status |-> status, updated_at |-> Dt(t)]
             detected_at == Get(doc, "detected_at", None)
         IN  IF status = "remediating"
             THEN Merge(doc, Merge(base, [remediation_started_at |-> Dt(t)]))
             ELSE IF status = "resolved"
             THEN LET u1 == Merge(base, [resolved_at |-> Dt(t)])
                      u2 == IF action_result # None
                            THEN Merge(u1, [action_result |-> action_result]) ELSE u1
                  IN  IF detected_at # None
                      THEN Merge(doc, Merge(u2, [mttr_seconds |-> IntV(t - detected_at.v)]))
                      ELSE Merge(doc, u2)
             ELSE IF status = "failed"
             THEN LET u1 == Merge(base, [resolved_at |-> Dt(t)])
                  IN  Merge(doc, IF error_message # ""
                                 THEN Merge(u1, [error_message |-> error_message])
                                 ELSE u1)
             ELSE Merge(doc, base)

(* Audit documents of the "actions" collection *)
AutoKey(n) == [kind |-> "auto", n |-> n]
ActionId(incident_id, t) == [kind |-> "action_id", incident_id |-> incident_id, ts |-> t]

AuditDoc(key, incident_id, action_type, success, t) ==
    [key |-> key, incident_id |-> incident_id, action_type |-> action_type,
     success |-> success, executed_at |-> t]

(* collection.add(doc): a new auto-keyed document *)
AddAudit(coll, incident_id, action_type, success, t) ==
    coll \cup {AuditDoc(AutoKey(Cardinality({a \in coll : a.key.kind = "auto"})),
                        incident_id, action_type, success, t)}

(* collection.document(key).set(doc): replaces the document under the key *)
SetAudit(coll, key, incident_id, action_type, success, t) ==
    {a \in coll : a.key # key} \cup {AuditDoc(key, incident_id, action_type, success, t)}

(* PubSubSubscriber._report_result raises inside its try block (logged and *)
(* swallowed, the incident not updated) when the MTTR cannot be computed,  *)
(* and document.update raises NotFound for a document that does not exist  *)
ReportRaises(doc, status) ==
    \/ doc = NoDoc
    \/ /\ status = "success"
       /\ Get(doc, "started_at", None) # None
       /\ ~CanSubtract(Get(doc, "started_at", None))

(* PubSubSubscriber._report_result: the incident document it leaves *)
_report_result(doc, status, t) ==
    LET final == IF status = "success" THEN "resolved" ELSE "failed"
        updates == [action_taken |-> [t |-> "action_result", status |-> status],
                    status |-> final]
    IN  IF ReportRaises(doc, status) THEN doc
        ELSE IF status = "success"
        THEN LET started_at == Get(doc, "started_at", None)
                 u1 == Merge(updates, [ended_at |-> Dt(t)])
             IN  IF started_at # None
                 THEN Merge(doc, Merge(u1, [mttr_seconds |-> IntV(t - started_at.v)]))
                 ELSE Merge(doc, u1)
        ELSE Merge(doc, updates)

----------------------------------------------------------------------------
(* The state machine *)

InitialServices ==
    {[traffic |-> {LatestTarget(100)}, min |-> 0, max |-> 100],
     [traffic |-> {RevisionTarget("r2", 100)}, min |-> 1, max |-> 3],
     [traffic |-> {RevisionTarget("r1", 50), RevisionTarget("r2", 50)},
      min |-> 2, max |-> 20]}

Idle == [pc |-> "idle"]
NoCall == [op |-> "none"]
NoRun == [env |-> NoEnvelope]
NoScan == [fn |-> "none"]
NoReco == [fn |-> "none"]
NoPublish == [fn |-> "none"]

(* two callers of the executor (two envelopes handled at the same time) *)
Callers == {"c1", "c2"}
NotCalled == [pc |-> "idle"]

Init ==
    /\ now = 0
    /\ dry_run \in BOOLEAN
    /\ svc \in InitialServices
    /\ cpWrites = 0
    /\ lastExec = NoCall
    /\ incidents = [i \in IncidentIds |-> NoDoc]
    /\ actions = {}
    /\ bus = {}
    /\ acked = {}
    /\ deliveries = 0
    /\ subscription \in {"push", "pull"}
    /\ fx = Idle
    /\ fixerWrote = {}
    /\ lastRun = NoRun
    /\ scan = NoScan
    /\ reco = NoReco
    /\ pub = NoPublish
    /\ conc = [p \in Callers |-> NotCalled]

Tick ==
    /\ now < MaxClock
    /\ now' = now + 1
    /\ UNCHANGED <<conc, reco, pub, scan, dry_run, svc, cpWrites, lastExec, incidents, actions, bus,
                   acked, deliveries, subscription, fx, fixerWrote, lastRun>>

(* Supervisor: FirestoreClient.create_incident *)
CreateIncident ==
    /\ IncidentId(SERVICE, now) \in IncidentIds
    /\ incidents' = [incidents EXCEPT
                        ![IncidentId(SERVICE, now)] = NewIncident(SERVICE, now)]
    /\ UNCHANGED <<conc, reco, pub, scan, now, dry_run, svc, cpWrites, lastExec, actions, bus, acked,
                   deliveries, subscription, fx, fixerWrote, lastRun>>

(* Supervisor: FirestoreClient.update_incident(id, {status: action_pending}) *)
MarkActionPending(id) ==
    /\ incidents' = [incidents EXCEPT
                        ![id] = update_incident(@, [status |-> "action_pending"])]
    /\ UNCHANGED <<conc, reco, pub, scan, now, dry_run, svc, cpWrites, lastExec, actions, bus, acked,
                   deliveries, subscription, fx, fixerWrote, lastRun>>

(* Supervisor loop, step 3c: one envelope is published per incident *)
Unpublished(id) == \A m \in bus : m.incident_id # id

(* Supervisor: PubSubPublisher.publish_action *)
PublishAction(e) ==
    /\ Unpublished(e.incident_id)
    /\ bus' = bus \cup {e}
    /\ UNCHANGED <<conc, reco, pub, scan, now, dry_run, svc, cpWrites, lastExec, incidents, actions,
                   acked, deliveries, subscription, fx, fixerWrote, lastRun>>

(* a variant in which a failed store write replaces the result reported *)
ResponseResultFailsOnStoreError(result, stored) ==
    IF stored THEN result ELSE [success |-> FALSE, message |-> "store write failed"]

(* the result the handler reports (the "result" of the push response, the  *)
(* ActionResult process_action returns): the executor's, whatever the      *)
(* store writes did, since the store helpers catch and log their errors    *)
ResponseResult(result, stored) == result

(* Fixer, POST /actions/execute: decode, then the "remediating" write *)
PushReceive(e) ==
    /\ subscription = "push"
    /\ fx.pc = "idle"
    /\ e \in bus
    /\ deliveries < MaxDeliveries
    /\ deliveries' = deliveries + 1
    /\ \E ok \in BOOLEAN :
          LET id == e.incident_id
              doc == update_incident_status(incidents[id], id, "remediating",
                                            None, "", now)
          IN  /\ incidents' = IF ok THEN [incidents EXCEPT ![id] = doc] ELSE incidents
              /\ fixerWrote' = IF ok THEN fixerWrote \cup {id} ELSE fixerWrote
              /\ fx' = [pc |-> "execute", env |-> e, result |-> None,
                        committed |-> IF ok THEN "remediating" ELSE "none",
                        audit |-> "none", handler_raised |-> FALSE,
                        wrote |-> FALSE]
    /\ UNCHANGED <<conc, reco, pub, scan, now, dry_run, svc, cpWrites, lastExec, actions, bus, acked,
                   subscription, lastRun>>

(* Fixer, POST /actions/execute: execute_cloud_run_action *)
PushExecute ==
    /\ fx.pc = "execute"
    /\ LET o == execute_cloud_run_action(svc, dry_run, fx.env)
       IN  /\ svc' = o.svc
           /\ cpWrites' = cpWrites + (IF o.wrote THEN 1 ELSE 0)
           /\ fx' = [fx EXCEPT !.pc = "report", !.result = o.result,
                               !.wrote = o.wrote,
                               !.handler_raised = ExecuteRaised(svc, dry_run, fx.env)]
           /\ lastRun' = [env |-> fx.env]
    /\ UNCHANGED <<conc, reco, pub, scan, now, dry_run, lastExec, incidents, actions, bus, acked,
                   deliveries, subscription, fixerWrote>>

(* Fixer, POST /actions/execute: the terminal write and the audit record *)
PushReport ==
    /\ fx.pc = "report"
    /\ \E ok, ok_audit \in BOOLEAN :
          LET id == fx.env.incident_id
              success == ResultSuccess(fx.result)
              status == IF success THEN "resolved" ELSE "failed"
              error_msg == Get(fx.result, "message", "Unknown error")
              doc == update_incident_status(incidents[id], id, status,
                         IF success THEN fx.result ELSE None,
                         IF success THEN "" ELSE error_msg, now)
              wrote == ok /\ ~StatusUpdateRaises(incidents[id], status)
          IN  /\ incidents' = IF wrote THEN [incidents EXCEPT ![id] = doc]
                              ELSE incidents
              /\ fixerWrote' = IF wrote THEN fixerWrote \cup {id} ELSE fixerWrote
              /\ actions' = IF success /\ ok_audit
                            THEN AddAudit(actions, id, fx.env.action_type, success, now)
                            ELSE actions
              /\ fx' = [fx EXCEPT !.pc = "respond",
                                  !.result = ResponseResult(@,
                                                 wrote /\ (success => ok_audit)),
                                  !.committed = IF wrote THEN status ELSE @,
                                  !.audit = IF ~success THEN "skipped"
                                            ELSE IF ok_audit THEN "written"
                                            ELSE "failed"]
    /\ UNCHANGED <<conc, reco, pub, scan, now, dry_run, svc, cpWrites, lastExec, bus, acked, deliveries,
                   subscription, lastRun>>

(* Fixer, POST /actions/execute: a body without "message" returns at once, *)
(* a payload that cannot be decoded raises before incident_id is bound     *)
PushReceiveMalformed(m) ==
    /\ subscription = "push"
    /\ fx.pc = "idle"
    /\ deliveries < MaxDeliveries
    /\ deliveries' = deliveries + 1
    /\ fx' = [pc |-> "respond", env |-> m, result |-> None,
              committed |-> "none", audit |-> "none", handler_raised |-> FALSE,
              wrote |-> FALSE]
    /\ UNCHANGED <<conc, reco, pub, scan, now, dry_run, svc, cpWrites, lastExec, incidents, actions, bus,
                   acked, subscription, fixerWrote, lastRun>>

(* the "status" of the JSON body the handler returns *)
ResponseOutcome(env) ==
    IF env = NoMessage THEN "ignored"
    ELSE IF env = Poison THEN "error"
    ELSE "processed"

ResponseStatusErrorIs500(outcome) == IF outcome = "error" THEN 500 ELSE 200

(* the status_code of the three JSONResponse returns *)
ResponseStatus(outcome) == 200

(* Fixer, POST /actions/execute: the response; a 2xx acknowledges the      *)
(* message, anything else makes the bus deliver it again                   *)
PushRespond ==
    /\ fx.pc = "respond"
    /\ acked' = IF ResponseStatus(ResponseOutcome(fx.env)) = 200
                THEN acked \cup {fx.env} ELSE acked
    /\ fx' = Idle
    /\ UNCHANGED <<conc, reco, pub, scan, now, dry_run, svc, cpWrites, lastExec, incidents, actions, bus,
                   deliveries, subscription, fixerWrote, lastRun>>

(* Fixer, pull callback: parse the ActionRequest and run process_action up *)
(* to its call of _report_result                                           *)
PullReceive(e) ==
    /\ subscription = "pull"
    /\ fx.pc = "idle"
    /\ e \in bus
    /\ deliveries < MaxDeliveries
    /\ deliveries' = deliveries + 1
    /\ LET o == process_action(svc, dry_run, e)
       IN  /\ svc' = o.svc
           /\ cpWrites' = cpWrites + (IF o.wrote THEN 1 ELSE 0)
           /\ fx' = [pc |-> "p_report", env |-> e,
                     result |-> [status |-> o.status,
                                 error_message |-> o.error_message],
                     committed |-> "none", audit |-> "none",
                     handler_raised |-> o.status = "failed",
                     wrote |-> o.wrote,
                     action_id |-> ActionId(e.incident_id, now)]
           /\ lastRun' = [env |-> e]
    /\ UNCHANGED <<conc, reco, pub, scan, now, dry_run, lastExec, incidents, actions, bus, acked,
                   subscription, fixerWrote>>

(* Fixer, pull callback: _report_result; the store may fail at either write *)
PullReport ==
    /\ fx.pc = "p_report"
    /\ \E outcome \in {"ok", "actions_write_fails", "incident_write_fails"} :
          LET id == fx.env.incident_id
              status == fx.result.status
              final == IF status = "success" THEN "resolved" ELSE "failed"
              wrote == outcome = "ok" /\ ~ReportRaises(incidents[id], status)
          IN  /\ actions' = IF outcome # "actions_write_fails"
                            THEN SetAudit(actions, fx.action_id, id,
                                          fx.env.action_type, status = "success", now)
                            ELSE actions
              /\ incidents' = IF wrote
                              THEN [incidents EXCEPT
                                      ![id] = _report_result(@, status, now)]
                              ELSE incidents
              /\ fixerWrote' = IF wrote THEN fixerWrote \cup {id} ELSE fixerWrote
              /\ fx' = [fx EXCEPT !.pc = "p_ack",
                                  !.result = ResponseResult(@,
                                                 wrote /\ outcome = "ok"),
                                  !.committed = IF wrote THEN final ELSE @,
                                  !.audit = IF outcome = "actions_write_fails"
                                            THEN "failed" ELSE "written"]
    /\ UNCHANGED <<conc, reco, pub, scan, now, dry_run, svc, cpWrites, lastExec, bus, acked, deliveries,
                   subscription, lastRun>>

(* Fixer, pull callback: message.ack() *)
PullAck ==
    /\ fx.pc = "p_ack"
    /\ acked' = acked \cup {fx.env}
    /\ fx' = Idle
    /\ UNCHANGED <<conc, reco, pub, scan, now, dry_run, svc, cpWrites, lastExec, incidents, actions, bus,
                   deliveries, subscription, fixerWrote, lastRun>>

(* Fixer, pull callback: json.loads or the ActionRequest constructor raises *)
PullReceivePoison ==
    /\ subscription = "pull"
    /\ fx.pc = "idle"
    /\ deliveries < MaxDeliveries
    /\ deliveries' = deliveries + 1
    /\ fx' = [pc |-> "p_nack", env |-> Poison, result |-> None,
              committed |-> "none", audit |-> "none", handler_raised |-> FALSE,
              wrote |-> FALSE]
    /\ UNCHANGED <<conc, reco, pub, scan, now, dry_run, svc, cpWrites, lastExec, incidents, actions, bus,
                   acked, subscription, fixerWrote, lastRun>>

(* Fixer, pull callback: message.nack() in the except branch *)
PullNack ==
    /\ fx.pc = "p_nack"
    /\ fx' = Idle
    /\ UNCHANGED <<conc, reco, pub, scan, now, dry_run, svc, cpWrites, lastExec, incidents, actions, bus,
                   acked, deliveries, subscription, fixerWrote, lastRun>>

Next ==
    \/ Tick
    \/ CreateIncident
    \/ \E id \in IncidentIds : MarkActionPending(id)
    \/ \E e \in Envelopes : PublishAction(e)
    \/ \E e \in Envelopes : PushReceive(e)
    \/ PushExecute
    \/ PushReport
    \/ PushRespond
    \/ \E e \in Envelopes : PullReceive(e)
    \/ PullReport
    \/ PullAck
    \/ \E m \in {Poison, NoMessage} : PushReceiveMalformed(m)
    \/ PullReceivePoison
    \/ PullNack

Spec == Init /\ [][Next]_vars

----------------------------------------------------------------------------
(* The executor called directly, with arguments drawn from small sets      *)

MinInputs == {None} \cup {IntV(n) : n \in {-1, 0, 3, 5, 20}}
MaxInputs == {None} \cup {IntV(n) : n \in {2, 10, 50, 100, 500}}
RevisionInputs == {"r1", "r2", "r9"}

CallUpdateScaling(service_name, min_instances, max_instances) ==
    /\ cpWrites < MaxCalls
    /\ LET o == update_scaling(svc, dry_run, service_name, min_instances, max_instances)
       IN  /\ svc' = o.svc
           /\ cpWrites' = cpWrites + (IF o.wrote THEN 1 ELSE 0)
           /\ lastExec' = [op |-> "update_scaling", service_name |-> service_name,
                           min_in |-> min_instances, max_in |-> max_instances,
                           target |-> NoRevision, raised |-> o.raised,
                           wrote |-> o.wrote, before |-> svc]
    /\ UNCHANGED <<conc, reco, pub, scan, now, dry_run, incidents, actions, bus, acked, deliveries,
                   subscription, fx, fixerWrote, lastRun>>

CallRollbackTraffic(service_name, target_revision) ==
    /\ cpWrites < MaxCalls
    /\ LET o == rollback_traffic(svc, dry_run, service_name, target_revision,
                                 ROLLBACK_PERCENTAGE)
       IN  /\ svc' = o.svc
           /\ cpWrites' = cpWrites + (IF o.wrote THEN 1 ELSE 0)
           /\ lastExec' = [op |-> "rollback_traffic", service_name |-> service_name,
                           min_in |-> None, max_in |-> None,
                           target |-> target_revision, raised |-> o.raised,
                           wrote |-> o.wrote, before |-> svc]
    /\ UNCHANGED <<conc, reco, pub, scan, now, dry_run, incidents, actions, bus, acked, deliveries,
                   subscription, fx, fixerWrote, lastRun>>

NextExec ==
    \/ \E n \in ServiceNames, mn \in MinInputs, mx \in MaxInputs :
          CallUpdateScaling(n, mn, mx)
    \/ \E n \in ServiceNames, r \in RevisionInputs : CallRollbackTraffic(n, r)

SpecExec == Init /\ [][NextExec]_vars

----------------------------------------------------------------------------
(* update_scaling run by several callers at once.  The call reads the      *)
(* service (get_service), computes the new scaling on its copy, and sends  *)
(* the copy with update_mask template.scaling; other callers' steps may    *)
(* come between the read and the write.                                    *)

ConcMinInputs == {None} \cup {IntV(n) : n \in {0, 3, 5}}
ConcMaxInputs == {None} \cup {IntV(n) : n \in {10, 50}}

(* update_scaling up to the update_service call: the service read and what *)
(* the call decided from it                                                *)
ScalingRead(p, min_instances, max_instances) ==
    /\ conc[p].pc = "idle"
    /\ LET o == update_scaling(svc, dry_run, SERVICE, min_instances, max_instances)
       IN  conc' = [conc EXCEPT ![p] =
                       [pc |-> IF o.wrote THEN "write" ELSE "done",
                        min_in |-> min_instances, max_in |-> max_instances,
                        read |-> svc, copy |-> o.svc,
                        raised |-> o.raised, wrote |-> FALSE]]
    /\ UNCHANGED <<reco, pub, scan, now, dry_run, svc, cpWrites, lastExec, incidents,
                   actions, bus, acked, deliveries, subscription, fx, fixerWrote,
                   lastRun>>

(* update_service(service=copy, update_mask=template.scaling): the scaling *)
(* of the copy replaces the service's.  When the service changed since the *)
(* read, the control plane may also refuse the stale copy (etag), and the  *)
(* call raises                                                             *)
ScalingWrite(p) ==
    /\ conc[p].pc = "write"
    /\ \E refused \in {FALSE, conc[p].read # svc} :
          IF refused
          THEN /\ conc' = [conc EXCEPT ![p].pc = "done", ![p].raised = TRUE]
               /\ UNCHANGED <<svc, cpWrites>>
          ELSE /\ svc' = [svc EXCEPT !.min = conc[p].copy.min,
                                     !.max = conc[p].copy.max]
               /\ cpWrites' = cpWrites + 1
               /\ conc' = [conc EXCEPT ![p].pc = "done", ![p].wrote = TRUE]
    /\ UNCHANGED <<reco, pub, scan, now, dry_run, lastExec, incidents,
                   actions, bus, acked, deliveries, subscription, fx, fixerWrote,
                   lastRun>>

NextConc ==
    \/ \E p \in Callers, mn \in ConcMinInputs, mx \in ConcMaxInputs :
          ScalingRead(p, mn, mx)
    \/ \E p \in Callers : ScalingWrite(p)

SpecConc == Init /\ [][NextConc]_vars

----------------------------------------------------------------------------
(* Properties *)

Field(doc, k) == Get(doc, k, None)

Rank(status) ==
    CASE status = "detected" -> 0
      [] status = "analyzing" -> 1
      [] status = "action_pending" -> 2
      [] status = "remediating" -> 3
      [] OTHER -> 4

IsTerminal(doc) == doc # NoDoc /\ doc.status \in Terminal

(* C1: once an incident is RESOLVED or FAILED, no later operation changes  *)
(* its status, resolved_at, mttr_seconds or attached result.               *)
TerminalWriteOnce ==
    [][\A i \in IncidentIds :
          IsTerminal(incidents[i]) =>
              /\ incidents'[i] # NoDoc
              /\ incidents'[i].status = incidents[i].status
              /\ Field(incidents'[i], "resolved_at") = Field(incidents[i], "resolved_at")
              /\ Field(incidents'[i], "ended_at") = Field(incidents[i], "ended_at")
              /\ Field(incidents'[i], "mttr_seconds") = Field(incidents[i], "mttr_seconds")
              /\ Field(incidents'[i], "action_result") = Field(incidents[i], "action_result")
              /\ Field(incidents'[i], "action_taken") = Field(incidents[i], "action_taken")
      ]_vars

(* C2: when the Fixer acknowledges a deserialized message, its handler has *)
(* committed a RESOLVED or FAILED write for the message's incident.        *)
AckAfterTerminalWrite ==
    (fx.pc \in {"respond", "p_ack"} /\ fx.env \in Envelopes)
        => fx.committed \in Terminal

(* C3: the stored status of an incident never moves to an earlier state of *)
(* DETECTED -> ANALYZING -> ACTION_PENDING -> REMEDIATING -> {RESOLVED,    *)
(* FAILED}, and the record is never removed.                               *)
StatusNeverMovesBack ==
    [][\A i \in IncidentIds :
          incidents[i] # NoDoc =>
              /\ incidents'[i] # NoDoc
              /\ Rank(incidents'[i].status) >= Rank(incidents[i].status)
      ]_vars

(* C4: once the Fixer has written a status for an incident, the incident   *)
(* is never ACTION_PENDING again.                                          *)
NoPendingAfterFixerWrite ==
    \A i \in fixerWrote : incidents[i] # NoDoc => incidents[i].status # "action_pending"

(* The step in which the Fixer runs the executor for envelope e *)
Executes(e) ==
    \/ fx.pc = "execute" /\ fx'.pc = "report" /\ fx.env = e
    \/ fx.pc = "idle" /\ fx'.pc = "p_report" /\ fx'.env = e

(* C5: executing the envelope that was executed last leaves the traffic    *)
(* split and the scaling bounds as the first execution left them.          *)
DuplicateDeliverySameService ==
    [][\A e \in Envelopes :
          (/\ e.action_type \in {"ROLLBACK", "SCALE_UP", "SCALE_DOWN"}
           /\ lastRun.env = e
           /\ Executes(e)) => svc' = svc
      ]_vars

(* C6: a delivery for an incident that is already RESOLVED or FAILED       *)
(* issues no control-plane update and writes nothing to the incident.      *)
RedeliveryAfterTerminalIsNoop ==
    [][\A e \in Envelopes :
          (/\ fx.pc = "idle"
           /\ fx'.pc # "idle"
           /\ fx'.env = e
           /\ IsTerminal(incidents[e.incident_id]))
          => incidents' = incidents /\ cpWrites' = cpWrites
      ]_vars

(* C7: in dry-run mode the executor's result counts as success for the     *)
(* Fixer, and the terminal write of the handler is RESOLVED, not FAILED.   *)
DryRunEndsResolved ==
    (fx.pc \in {"report", "respond"} /\ "dry_run" \in DOMAIN fx.result)
        => ResultSuccess(fx.result) /\ fx.committed # "failed"

(* C8: in dry-run mode no step changes the traffic split or the scaling    *)
(* bounds, and no update is issued to the control plane.                   *)
DryRunNoControlPlaneUpdate ==
    [][dry_run => svc' = svc /\ cpWrites' = cpWrites]_vars

DryRunExecutedWitness ==
    /\ dry_run
    /\ fx.pc = "report"
    /\ "dry_run" \in DOMAIN fx.result
    /\ fx.env.action_type \in {"SCALE_UP", "SCALE_DOWN"}
    /\ deliveries = 2

InMinRange(n) == MIN_INSTANCES_FLOOR <= n /\ n <= MIN_INSTANCES_CEILING
InMaxRange(n) == MAX_INSTANCES_FLOOR <= n /\ n <= MAX_INSTANCES_CEILING

(* C9: every bound supplied to update_scaling is written inside its clamp  *)
(* range; a request of min=20, max=500 applies min=5, max=100 and succeeds *)
ScalingWrittenClamped ==
    (lastExec.op = "update_scaling" /\ lastExec.wrote) =>
        /\ lastExec.min_in # None => InMinRange(svc.min)
        /\ lastExec.max_in # None => InMaxRange(svc.max)
        /\ (lastExec.min_in = IntV(20) /\ lastExec.max_in = IntV(500))
               => svc.min = 5 /\ svc.max = 100 /\ ~lastExec.raised

ScalingClampedWitness ==
    /\ lastExec.op = "update_scaling"
    /\ lastExec.wrote
    /\ lastExec.min_in = IntV(20)
    /\ lastExec.max_in = IntV(500)
    /\ lastExec.before.min = 1

EffectiveMin(c) ==
    IF c.min_in # None THEN ClampMin(c.min_in.v) ELSE c.before.min
EffectiveMax(c) ==
    IF c.max_in # None THEN ClampMax(c.max_in.v) ELSE c.before.max

----------------------------------------------------------------------------
InClampRanges(c) ==
    /\ c.min_in # None
    /\ c.max_in # None
    /\ InMinRange(c.min_in.v)
    /\ InMaxRange(c.max_in.v)
    /\ c.min_in.v <= c.max_in.v

(* C11: after each update_scaling(s, min=X, max=Y) with X, Y inside the    *)
(* clamp ranges and X <= Y the service has bounds (X, Y), and after each   *)
(* rollback_traffic(s, r) to a revision of s the traffic split is          *)
(* {r: 100}, also when the call repeats the previous one; in dry-run mode  *)
(* each call leaves the service as it was.                                 *)
ExecutorIdempotent ==
    /\ (lastExec.op = "update_scaling" /\ lastExec.service_name = SERVICE
          /\ InClampRanges(lastExec))
         => IF dry_run
            THEN svc = lastExec.before /\ ~lastExec.wrote
            ELSE /\ ~lastExec.raised
                 /\ svc.min = lastExec.min_in.v
                 /\ svc.max = lastExec.max_in.v
                 /\ svc.traffic = lastExec.before.traffic
    /\ (lastExec.op = "rollback_traffic" /\ lastExec.service_name = SERVICE
          /\ lastExec.target \in Revisions)
         => IF dry_run
            THEN svc = lastExec.before /\ ~lastExec.wrote
            ELSE /\ ~lastExec.raised
                 /\ _get_traffic_split(svc) = {<<lastExec.target, ROLLBACK_PERCENTAGE>>}
                 /\ svc.min = lastExec.before.min
                 /\ svc.max = lastExec.before.max

(* the second of two identical calls: the service already had what the     *)
(* call asks for, which no initial service has                             *)
ExecutorRepeatedWitness ==
    /\ ~dry_run
    /\ lastExec.op = "update_scaling"
    /\ lastExec.wrote
    /\ lastExec.min_in = IntV(3)
    /\ lastExec.max_in = IntV(50)
    /\ lastExec.before.min = 3
    /\ lastExec.before.max = 50
    /\ cpWrites >= 2

PreconditionMessages ==
    {"Service not found", "Target revision not found",
     "target_revision is required for ROLLBACK",
     "target_revision is required for ROLLBACK action",
     "min_instances cannot be greater than max_instances"}

(* the failure text of a handler's result: "message" of the push result    *)
(* dict, error_message of the pull ActionResult                            *)
ResultMessage(result) ==
    IF result = None THEN ""
    ELSE Get(result, "message", Get(result, "error_message", ""))

(* C12: a handler whose executor call failed on a precondition issued no   *)
(* control-plane update, and its FAILED write to an existing incident      *)
(* leaves it with status FAILED, resolved_at set and an error message.     *)
PreconditionFailureRecorded ==
    [][/\ (fx'.pc \in {"report", "p_report"} /\ fx.pc \notin {"report", "p_report"}
             /\ ResultMessage(fx'.result) \in PreconditionMessages)
            => svc' = svc /\ cpWrites' = cpWrites
       /\ (fx.pc \in {"report", "p_report"}
             /\ ResultMessage(fx.result) \in PreconditionMessages
             /\ incidents[fx.env.incident_id] # NoDoc
             /\ fx'.committed = "failed")
            => LET d == incidents'[fx.env.incident_id]
               IN  /\ d # NoDoc
                   /\ d.status = "failed"
                   /\ \/ Field(d, "resolved_at") # None
                      \/ Field(d, "ended_at") # None
                   /\ \/ "error_message" \in DOMAIN d
                      \/ Field(d, "action_taken") # None
      ]_vars

(* the detection time create_incident records on the document *)
DetectionTime(doc) ==
    IF Get(doc, "detected_at", None) # None THEN Get(doc, "detected_at", None)
    ELSE Get(doc, "started_at", None)

(* C13: when the Fixer commits RESOLVED on an incident that create_incident *)
(* wrote, the stored record gets mttr_seconds, the non-negative time from  *)
(* the detection time recorded at creation to the RESOLVED write.          *)
ResolvedHasMttr ==
    [][(/\ fx.pc \in {"report", "p_report"}
        /\ incidents[fx.env.incident_id] # NoDoc
        /\ "started_at" \in DOMAIN incidents[fx.env.incident_id]
        /\ fx'.committed = "resolved")
       => LET d == incidents[fx.env.incident_id]
              e == incidents'[fx.env.incident_id]
          IN  /\ e.status = "resolved"
              /\ Field(e, "mttr_seconds") = IntV(now - DetectionTime(d).v)
              /\ now - DetectionTime(d).v >= 0
      ]_vars

(* C14: an incident carries mttr_seconds if and only if its status is      *)
(* RESOLVED and its detection time is known.                               *)
MttrIffResolvedAndDetected ==
    \A i \in IncidentIds :
        incidents[i] # NoDoc =>
            ((Field(incidents[i], "mttr_seconds") # None)
                <=> (incidents[i].status = "resolved"
                       /\ DetectionTime(incidents[i]) # None))

(* C15: every action the Fixer executes, whether it succeeded or failed,   *)
(* adds one audit record for its incident to the actions collection        *)
(* (unless the store refused the write), and no step overwrites or removes *)
(* an audit record.                                                        *)
AuditAppendedPerAction ==
    [][/\ actions \subseteq actions'
       /\ (fx.pc \in {"report", "p_report"} /\ fx'.pc \in {"respond", "p_ack"}
             /\ fx'.audit # "failed")
            => \E a \in actions' \ actions :
                  /\ a.incident_id = fx.env.incident_id
                  /\ a.action_type = fx.env.action_type
      ]_vars

PoisonAckedNoUpdate ==
    [][(fx.pc # "idle" /\ fx.env = Poison)
          => /\ cpWrites' = cpWrites
             /\ svc' = svc
             /\ fx'.pc = "idle" => Poison \in acked'
      ]_vars

----------------------------------------------------------------------------
(* Supervisor: health assessment.  Rates are percentages; the error_rate   *)
(* of a HealthMetrics is rounded to two decimals and kept here in          *)
(* hundredths of a percent.  A latency is None or IntV(milliseconds).      *)

ERROR_THRESHOLD == 5
LATENCY_P95_THRESHOLD_MS == 600
MIN_REQUEST_COUNT == 100

(* round(total_errors / total_requests * 100, 2), in hundredths *)
RoundedErrorRate(total_errors, total_requests) ==
    IF total_requests > 0
    THEN (2 * 10000 * total_errors + total_requests) \div (2 * total_requests)
    ELSE 0

(* "if x": None and 0 are falsy *)
Falsy(x) == x = None \/ x.v = 0

(* HealthScanner._get_metrics: the HealthMetrics built from the three      *)
(* query results                                                           *)
HealthMetrics(request_count, error_count, latencies) ==
    [error_rate |-> RoundedErrorRate(error_count, request_count),
     latency_p95 |-> IF Falsy(latencies) THEN None ELSE latencies,
     request_count |-> request_count,
     success_count |-> request_count - error_count,
     error_count |-> error_count]

Summary(anomalies) == [t |-> "str", v |-> anomalies]

(* A telemetry query returns a number (IntV) or fails with a transport     *)
(* error                                                                   *)
QueryFailed == [t |-> "error"]

ZeroMetrics ==
    [error_rate |-> 0, latency_p95 |-> None, request_count |-> 0,
     success_count |-> 0, error_count |-> 0]

(* HealthScanner._get_metrics: _query_metric raises on a transport error,  *)
(* and the except branch returns zero metrics                              *)
_get_metrics(q_requests, q_latencies, q_errors) ==
    IF q_requests = QueryFailed \/ q_latencies = QueryFailed \/ q_errors = QueryFailed
    THEN ZeroMetrics
    ELSE HealthMetrics(q_requests.v, q_errors.v, q_latencies)

InsufficientDataNever(request_count) == FALSE

(* HealthScanner._assess_health: "not enough data" *)
InsufficientData(request_count) == request_count < MIN_REQUEST_COUNT

(* a variant that needs more than one anomaly to leave HEALTHY *)
AnomalyStatusSingleIsHealthy(anomalies) ==
    IF Len(anomalies) > 1 THEN "unhealthy" ELSE "healthy"

(* HealthScanner._assess_health: the status for a non-empty anomaly list *)
AnomalyStatus(anomalies) ==
    IF Len(anomalies) > 1 THEN "unhealthy" ELSE "degraded"

(* HealthScanner._assess_health: (status, has_anomaly, anomaly_summary) *)
_assess_health(metrics) ==
    IF InsufficientData(metrics.request_count)
    THEN [status |-> "healthy", has_anomaly |-> FALSE, anomaly_summary |-> None]
    ELSE LET a1 == IF metrics.error_rate > ERROR_THRESHOLD * 100
                   THEN <<"High error rate">> ELSE <<>>
             a2 == IF ~Falsy(metrics.latency_p95)
                      /\ metrics.latency_p95.v > LATENCY_P95_THRESHOLD_MS
                   THEN <<"High latency p95">> ELSE <<>>
             anomalies == a1 \o a2
         IN  IF anomalies = <<>>
             THEN [status |-> "healthy", has_anomaly |-> FALSE,
                   anomaly_summary |-> None]
             ELSE [status |-> AnomalyStatus(anomalies),
                   has_anomaly |-> TRUE, anomaly_summary |-> Summary(anomalies)]

(* error_rate > error_threshold for the unrounded rate                     *)
(* total_errors / total_requests * 100                                     *)
RateAbove(total_errors, total_requests, threshold) ==
    total_requests > 0 /\ total_errors * 100 > threshold * total_requests

(* main.scan_service_health, from the metric values fetched *)
scan_service_health(service_name, request_count, error_count, latency_p95) ==
    LET enough == request_count >= MIN_REQUEST_COUNT
        err == enough /\ RateAbove(error_count, request_count, ERROR_THRESHOLD)
        lat == enough /\ ~Falsy(latency_p95)
                  /\ latency_p95.v > LATENCY_P95_THRESHOLD_MS
        status1 == IF err THEN "unhealthy" ELSE "healthy"
        status2 == IF lat /\ status1 # "unhealthy" THEN "degraded" ELSE status1
        anomalies == (IF err THEN <<"High error rate">> ELSE <<>>)
                     \o (IF lat THEN <<"High latency p95">> ELSE <<>>)
    IN  [service |-> service_name, status |-> status2, has_anomaly |-> err \/ lat,
         error_rate |-> RoundedErrorRate(error_count, request_count),
         latency_p95 |-> IF Falsy(latency_p95) THEN None ELSE latency_p95,
         request_count |-> request_count, error_count |-> error_count,
         success_count |-> request_count - error_count,
         anomaly_summary |-> IF anomalies # <<>> THEN Summary(anomalies) ELSE None,
         recommendation |-> None]

(* HealthScanner.scan_service: _get_metrics and _get_error_logs (which     *)
(* returns [] on any error) never raise, so the except branch that builds  *)
(* the UNKNOWN ServiceHealth is not entered on a query failure             *)
scan_service(service_name, q_requests, q_latencies, q_errors) ==
    LET metrics == _get_metrics(q_requests, q_latencies, q_errors)
        r == _assess_health(metrics)
    IN  [service |-> service_name, status |-> r.status,
         has_anomaly |-> r.has_anomaly, anomaly_summary |-> r.anomaly_summary,
         metrics |-> metrics, error_rate |-> metrics.error_rate,
         latency_p95 |-> metrics.latency_p95,
         request_count |-> metrics.request_count, raised |-> FALSE]

(* main.fetch_metric_from_monitoring: 0.0 on any exception *)
fetch_metric_from_monitoring(q) == IF q = QueryFailed THEN 0 ELSE q.v

RequestCounts == {0, 10, 99, 100, 1000}
ErrorCounts == {0, 5, 6, 51, 150}
Latencies == {None} \cup {IntV(n) : n \in {0, 600, 601, 1200}}

(* HealthScanner._assess_health on the metrics of a scan whose queries    *)
(* all answered                                                            *)
AssessHealth(request_count, error_count, latencies) ==
    /\ LET metrics == HealthMetrics(request_count, error_count, latencies)
           r == _assess_health(metrics)
       IN  scan' = [fn |-> "_assess_health", service |-> SERVICE,
                    status |-> r.status, has_anomaly |-> r.has_anomaly,
                    anomaly_summary |-> r.anomaly_summary,
                    error_rate |-> metrics.error_rate,
                    latency_p95 |-> metrics.latency_p95,
                    request_count |-> request_count, error_count |-> error_count]
    /\ UNCHANGED <<conc, reco, pub, now, dry_run, svc, cpWrites, lastExec, incidents, actions, bus,
                   acked, deliveries, subscription, fx, fixerWrote, lastRun>>

(* main.scan_service_health called on its own (GET /services/status) *)
ScanServiceHealth(request_count, error_count, latency_p95) ==
    /\ LET r == scan_service_health(SERVICE, request_count, error_count, latency_p95)
       IN  scan' = [fn |-> "scan_service_health", service |-> r.service,
                    status |-> r.status, has_anomaly |-> r.has_anomaly,
                    anomaly_summary |-> r.anomaly_summary,
                    error_rate |-> r.error_rate, latency_p95 |-> r.latency_p95,
                    request_count |-> request_count, error_count |-> error_count]
    /\ UNCHANGED <<conc, reco, pub, now, dry_run, svc, cpWrites, lastExec, incidents, actions, bus,
                   acked, deliveries, subscription, fx, fixerWrote, lastRun>>

(* the outcomes of the telemetry queries of one scan *)
Queries == {IntV(n) : n \in {0, 150, 1000}} \cup {QueryFailed}

(* HealthScanner.scan_service with the outcomes of its three metric        *)
(* queries                                                                 *)
ScanService(q_requests, q_latencies, q_errors) ==
    /\ LET r == scan_service(SERVICE, q_requests, q_latencies, q_errors)
       IN  scan' = [fn |-> "scan_service",
                    queries |-> <<q_requests, q_latencies, q_errors>>] @@ r
    /\ UNCHANGED <<conc, reco, pub, now, dry_run, svc, cpWrites, lastExec, incidents, actions, bus,
                   acked, deliveries, subscription, fx, fixerWrote, lastRun>>

(* main._get_target_services: the configured targets (two by default) *)
TargetServices == <<SERVICE, "svcB">>

(* the outcomes <<request_count, error_count, latency, error logs>> of     *)
(* the telemetry and log queries of one target of a scan                   *)
TargetQueries ==
    { <<IntV(1000), IntV(5), IntV(100), IntV(0)>>,
      <<IntV(1000), IntV(150), IntV(1200), IntV(2)>>,
      <<IntV(1000), IntV(150), IntV(1200), QueryFailed>>,
      <<IntV(1000), QueryFailed, IntV(1200), IntV(0)>>,
      <<QueryFailed, IntV(150), IntV(100), IntV(2)>>,
      <<QueryFailed, QueryFailed, QueryFailed, QueryFailed>> }

(* main.fetch_error_logs: the log entries found, [] on any exception *)
fetch_error_logs(q) == IF q = QueryFailed THEN <<>> ELSE [k \in 1..q.v |-> "log"]

(* main.scan_service_health on one target, from the outcomes of its        *)
(* queries                                                                 *)
ScanTarget(service_name, q) ==
    [error_logs |-> fetch_error_logs(q[4])] @@
    scan_service_health(service_name,
                        fetch_metric_from_monitoring(q[1]),
                        fetch_metric_from_monitoring(q[2]),
                        IntV(fetch_metric_from_monitoring(q[3])))

(* a variant of the gather of scan_services that keeps only the targets    *)
(* whose queries all answered                                              *)
GatherScansSkippingFailures(target_services, q) ==
    LET all == [i \in DOMAIN target_services |-> i]
        ok(i) == \A k \in DOMAIN q[i] : q[i][k] # QueryFailed
        kept == SelectSeq(all, ok)
    IN  [n \in DOMAIN kept |-> ScanTarget(target_services[kept[n]], q[kept[n]])]

(* main.scan_services: one scan_service_health task per target, gathered   *)
(* in the order of the targets                                             *)
GatherScans(target_services, q) ==
    [i \in DOMAIN target_services |-> ScanTarget(target_services[i], q[i])]

(* main.scan_services (POST /health/scan) over the configured targets:     *)
(* every target is scanned by scan_service_health, whose metric and log    *)
(* fetches return 0.0 and [] on any exception; the report is built from    *)
(* the scan results; the store and the bus are not used                    *)
ScanServices(q) ==
    /\ LET target_services == TargetServices
           scan_results == GatherScans(target_services, q)
       IN  scan' = [fn |-> "scan_services",
                    queries |-> q,
                    responded |-> TRUE,
                    services_scanned |-> Len(target_services),
                    anomalies_detected |->
                        Cardinality({i \in DOMAIN scan_results :
                                        scan_results[i].has_anomaly}),
                    details |-> scan_results]
    /\ UNCHANGED <<conc, reco, pub, now, dry_run, svc, cpWrites, lastExec, incidents, actions, bus,
                   acked, deliveries, subscription, fx, fixerWrote, lastRun>>

NextScan ==
    \/ \E rc \in RequestCounts, ec \in ErrorCounts, l \in Latencies :
          AssessHealth(rc, ec, l)
    \/ \E rc \in RequestCounts, ec \in ErrorCounts, l \in Latencies :
          ScanServiceHealth(rc, ec, l)
    \/ \E q1 \in Queries, q2 \in Queries, q3 \in Queries :
          ScanService(q1, q2, q3)
    \/ \E q \in [DOMAIN TargetServices -> TargetQueries] :
          ScanServices(q)

SpecScan == Init /\ [][NextScan]_vars

----------------------------------------------------------------------------
(* The Reasoner (gemini_reasoner.py)                                       *)

Str(x) == [t |-> "str", v |-> x]

(* ActionType.__members__ *)
ActionTypeMembers == {"ROLLBACK", "SCALE_UP", "SCALE_DOWN", "REDEPLOY", "NONE"}

(* str.upper() on the action strings a reply may carry *)
Upper(x) ==
    CASE x = "rollback" -> "ROLLBACK"
      [] x = "scale_up" -> "SCALE_UP"
      [] OTHER -> x

(* the control plane's answer to get_service and list_revisions: it fails, *)
(* or it gives the traffic targets (in order) and the revision names       *)
FetchFailed == [t |-> "error"]
ServiceInfo(traffic, revisions) ==
    [t |-> "service", traffic |-> traffic, revisions |-> revisions]

(* GeminiReasoner._get_revision_info *)
_get_revision_info(info) ==
    IF info = FetchFailed
    THEN [current_revision |-> Str("unknown"), previous_revision |-> None,
          available_revisions |-> <<>>]
    ELSE LET named == {k \in DOMAIN info.traffic : info.traffic[k].revision # ""}
             latest == {k \in named : info.traffic[k].latest}
             current_revision ==
                 IF latest = {} THEN None
                 ELSE Str(info.traffic[CHOOSE k \in latest :
                                         \A j \in latest : j <= k].revision)
             serving == {k \in named :
                            /\ Str(info.traffic[k].revision) # current_revision
                            /\ info.traffic[k].percent > 0}
             with_traffic ==
                 IF serving = {} THEN None
                 ELSE Str(info.traffic[CHOOSE k \in serving :
                                         \A j \in serving : k <= j].revision)
             previous_revision ==
                 IF with_traffic = None /\ Len(info.revisions) > 1
                 THEN Str(info.revisions[2])
                 ELSE with_traffic
         IN  [current_revision |-> current_revision,
              previous_revision |-> previous_revision,
              available_revisions |-> info.revisions]

(* AIRecommendation *)
AIRecommendation(action, confidence, target_revision) ==
    [action |-> action, confidence |-> confidence,
     target_revision |-> target_revision, scale_params |-> None]

(* the safe default both except branches return *)
SafeDefault == AIRecommendation("NONE", 0, None)

(* the model's outcome: the call raises (timeout, upstream error), or its  *)
(* text is not JSON, or is JSON that is not an object, or is a JSON object *)
ModelRaised == [t |-> "raised"]
NonJson == [t |-> "text"]
JsonList == [t |-> "json_list"]
JsonObject(data) == [t |-> "json", data |-> data]

(* GeminiReasoner._parse_recommendation; confidence in hundredths *)
_parse_recommendation(reply, revision_info) ==
    IF reply.t # "json" THEN SafeDefault
    ELSE LET data == reply.data
             a == Get(data, "action", Str("NONE"))
             c == Get(data, "confidence", IntV(0))
         IN  IF a.t # "str" THEN SafeDefault
             ELSE LET action_str == Upper(a.v)
                      action == IF action_str \in ActionTypeMembers
                                THEN action_str ELSE "NONE"
                      target_revision ==
                          IF action = "ROLLBACK"
                          THEN revision_info.previous_revision ELSE None
                  IN  IF c.t # "int" \/ c.v < 0 \/ c.v > 100 THEN SafeDefault
                      ELSE AIRecommendation(action, c.v, target_revision)

(* GeminiReasoner.analyze_and_recommend *)
analyze_and_recommend(info, reply) ==
    LET revision_info == _get_revision_info(info)
    IN  IF reply = ModelRaised THEN SafeDefault
        ELSE _parse_recommendation(reply, revision_info)

Target(r, p, l) == [revision |-> r, percent |-> p, latest |-> l]

RevisionInfos ==
    { FetchFailed,
      ServiceInfo(<<>>, <<>>),
      ServiceInfo(<<Target("r2", 100, TRUE)>>, <<"r2">>),
      ServiceInfo(<<Target("r2", 100, TRUE)>>, <<"r2", "r1">>),
      ServiceInfo(<<Target("", 100, TRUE)>>, <<"r2", "r1">>),
      ServiceInfo(<<Target("r2", 100, FALSE)>>, <<"r2", "r1">>),
      ServiceInfo(<<Target("r2", 50, TRUE), Target("r1", 50, FALSE)>>, <<"r2", "r1">>),
      ServiceInfo(<<Target("r1", 0, FALSE), Target("r2", 100, TRUE)>>, <<"r2">>) }

ReplyActions ==
    {Str(x) : x \in ActionTypeMembers \cup {"rollback", "RESTART"}} \cup {IntV(1)}
ReplyConfidences == {IntV(0), IntV(90), IntV(100), IntV(150), Str("high")}
ReplyData ==
    {[action |-> a, confidence |-> c] : a \in ReplyActions, c \in ReplyConfidences}
    \cup {[action |-> a] : a \in ReplyActions}
    \cup {[confidence |-> c] : c \in ReplyConfidences}
Replies == {ModelRaised, NonJson, JsonList} \cup {JsonObject(d) : d \in ReplyData}

AnalyzeAndRecommend(info, reply) ==
    /\ reco' = [fn |-> "analyze_and_recommend", info |-> info, reply |-> reply,
                raised |-> FALSE,
                revision_info |-> _get_revision_info(info),
                result |-> analyze_and_recommend(info, reply)]
    /\ UNCHANGED <<conc, pub, scan, now, dry_run, svc, cpWrites, lastExec, incidents,
                   actions, bus, acked, deliveries, subscription, fx, fixerWrote,
                   lastRun>>

NextReason ==
    \E info \in RevisionInfos, reply \in Replies : AnalyzeAndRecommend(info, reply)

SpecReason == Init /\ [][NextReason]_vars

----------------------------------------------------------------------------
(* The Publisher (pubsub_publisher.py)                                     *)

(* what the bus answers to successive publish attempts of one call *)
BusAnswers == {"accepted", "transient"}
AttemptAnswers == [1..2 -> BusAnswers]

MessageId(e) == Str(<<"msg", e.incident_id, e.action_type>>)

(* PubSubPublisher.publish_action: one call of publisher.publish, whose    *)
(* result is awaited; any exception is logged and raised again             *)
PublishActionCall(e, answers) ==
    /\ Cardinality(bus) < MaxPublished
    /\ pub' = [fn |-> "publish_action", env |-> e, answers |-> answers,
               attempts |-> 1,
               raised |-> answers[1] # "accepted",
               message_id |-> IF answers[1] = "accepted" THEN MessageId(e) ELSE None]
    /\ bus' = IF answers[1] = "accepted" THEN bus \cup {e} ELSE bus
    /\ UNCHANGED <<conc, reco, scan, now, dry_run, svc, cpWrites, lastExec, incidents,
                   actions, acked, deliveries, subscription, fx, fixerWrote,
                   lastRun>>

NextPublish ==
    \E e \in Envelopes, answers \in AttemptAnswers : PublishActionCall(e, answers)

SpecPublish == Init /\ [][NextPublish]_vars

----------------------------------------------------------------------------
(* C18: a scan that reports has_anomaly=true for a service leaves an       *)
(* incident for that service in the store (DETECTED, or ACTION_PENDING     *)
(* once its envelope is on the bus), and nothing is ACTION_PENDING without *)
(* a published envelope.                                                   *)
ScanPersistsAndPublishes ==
    /\ scan.fn = "scan_services"
         => \A t \in DOMAIN scan.details :
               scan.details[t].has_anomaly
                 => \E i \in DOMAIN incidents :
                       /\ incidents[i] # NoDoc
                       /\ incidents[i].service_name = scan.details[t].service
                       /\ incidents[i].status \in {"detected", "action_pending"}
    /\ \A i \in DOMAIN incidents :
          (incidents[i] # NoDoc /\ incidents[i].status = "action_pending")
              => \E m \in bus : m.incident_id = i

(* the per-service results a scan returned *)
ScanResults(c) ==
    IF c.fn = "none" THEN {}
    ELSE IF c.fn = "scan_services" THEN {c.details[t] : t \in DOMAIN c.details}
    ELSE {c}

(* the number of threshold violations of the snapshot a scan assessed *)
ViolationCount(c) ==
    (IF c.fn = "_assess_health"
     THEN (IF c.error_rate > ERROR_THRESHOLD * 100 THEN 1 ELSE 0)
     ELSE (IF RateAbove(c.error_count, c.request_count, ERROR_THRESHOLD) THEN 1 ELSE 0))
    + (IF c.latency_p95 # None /\ c.latency_p95.v > LATENCY_P95_THRESHOLD_MS
       THEN 1 ELSE 0)

(* C19: with request_count >= min_request_count, the status is HEALTHY iff *)
(* no threshold is violated, DEGRADED iff one is, UNHEALTHY iff both are.  *)
StatusByViolationCount ==
    (scan.fn \in {"_assess_health", "scan_service_health"}
       /\ scan.request_count >= MIN_REQUEST_COUNT)
      => /\ scan.status = "healthy" <=> ViolationCount(scan) = 0
         /\ scan.status = "degraded" <=> ViolationCount(scan) = 1
         /\ scan.status = "unhealthy" <=> ViolationCount(scan) >= 2

(* C20: below min_request_count a scan is HEALTHY with has_anomaly=false   *)
(* and no anomaly summary, whatever the error rate and the latency.        *)
LowTrafficIsHealthy ==
    \A r \in ScanResults(scan) :
        r.request_count < MIN_REQUEST_COUNT
          => /\ r.status = "healthy"
             /\ ~r.has_anomaly
             /\ r.anomaly_summary = None

LowTrafficWitness ==
    /\ scan.fn = "_assess_health"
    /\ scan.request_count = 10
    /\ scan.error_count = 5
    /\ scan.error_rate = 5000
    /\ scan.latency_p95 = IntV(1200)
    /\ scan.status = "healthy"

(* C21: scan_service never raises, and when its metric queries fail with   *)
(* a transport error the ServiceHealth it returns has status UNKNOWN,      *)
(* zeroed metrics and has_anomaly=false.                                   *)
UnreachableBackendIsUnknown ==
    (scan.fn = "scan_service"
       /\ \A k \in DOMAIN scan.queries : scan.queries[k] = QueryFailed)
      => /\ ~scan.raised
         /\ scan.status = "unknown"
         /\ scan.metrics = ZeroMetrics
         /\ ~scan.has_anomaly

(* the model outcomes and lookups the Reasoner treats as failures: the     *)
(* call raised, the reply is not a JSON object, a field is missing or      *)
(* ill-typed, or the revision info could not be fetched                    *)
ReasonerFailure(c) ==
    \/ c.info = FetchFailed
    \/ c.reply.t # "json"
    \/ /\ c.reply.t = "json"
       /\ \/ DOMAIN c.reply.data # {"action", "confidence"}
          \/ c.reply.data.action.t # "str"
          \/ c.reply.data.confidence.t # "int"

(* C22: analyze_and_recommend never raises, and on any failure (model      *)
(* timeout or error, non-JSON reply, missing or ill-typed fields, revision *)
(* info not fetched) it returns action NONE with confidence 0.             *)
ReasonerFailsSafe ==
    reco.fn = "analyze_and_recommend"
      => /\ ~reco.raised
         /\ ReasonerFailure(reco)
              => reco.result.action = "NONE" /\ reco.result.confidence = 0

(* C23: a returned ROLLBACK has target_revision set; with no previous      *)
(* stable revision derived, a ROLLBACK reply is downgraded to NONE.        *)
RollbackHasTarget ==
    reco.fn = "analyze_and_recommend"
      => /\ reco.result.action = "ROLLBACK" => reco.result.target_revision # None
         /\ reco.revision_info.previous_revision = None
              => reco.result.action # "ROLLBACK"

(* C24: a returned SCALE_UP or SCALE_DOWN has scale_params set, with       *)
(* min <= max.                                                             *)
ScaleHasParams ==
    (reco.fn = "analyze_and_recommend"
       /\ reco.result.action \in {"SCALE_UP", "SCALE_DOWN"})
      => /\ reco.result.scale_params # None
         /\ reco.result.scale_params.min <= reco.result.scale_params.max

(* C26: publish_action returns a message id only for a message the bus     *)
(* accepted, and on a transient bus failure it retries (a bounded number   *)
(* of times) before it fails to the caller.                                *)
PublishRetriesBounded ==
    pub.fn = "publish_action"
      => /\ pub.message_id # None => (~pub.raised /\ pub.env \in bus)
         /\ pub.answers[1] = "transient" => pub.attempts > 1
         /\ pub.attempts <= Len(pub.answers)

(* C25: in a scan over several targets a failing telemetry or log query   *)
(* for one service does not prevent the others from being scanned: the     *)
(* report is returned with one entry per configured target, in order, and  *)
(* services_scanned is the number of targets.                              *)
ScanReportsEveryTarget ==
    scan.fn = "scan_services"
      => /\ scan.responded
         /\ scan.services_scanned = Len(TargetServices)
         /\ Len(scan.details) = Len(TargetServices)
         /\ \A i \in DOMAIN TargetServices :
               /\ scan.details[i].service = TargetServices[i]
               /\ scan.details[i].status \in {"healthy", "degraded", "unhealthy", "unknown"}

ScanWithFailedTargetWitness ==
    /\ scan.fn = "scan_services"
    /\ \A k \in 1..4 : scan.queries[1][k] = QueryFailed
    /\ \A k \in 1..4 : scan.queries[2][k] # QueryFailed
    /\ scan.details[1].service = SERVICE
    /\ scan.details[2].service = "svcB"
    /\ scan.details[2].has_anomaly
    /\ scan.services_scanned = 2

(* C27: every incident the Fixer moved to REMEDIATING reaches RESOLVED or  *)
(* FAILED once the executor call has returned: when the handler has        *)
(* answered and is idle again, no incident of an acknowledged envelope is  *)
(* still REMEDIATING.                                                      *)
NoRemediatingAfterAck ==
    fx.pc = "idle"
      => \A e \in acked \cap Envelopes :
            incidents[e.incident_id] # NoDoc
              => incidents[e.incident_id].status # "remediating"

(* C28: the REMEDIATING write (with remediation_started_at) is committed   *)
(* before the executor is called for the envelope and the terminal write   *)
(* comes after it: an incident the Fixer left RESOLVED or FAILED has       *)
(* remediation_started_at set.                                             *)
RemediatingBeforeTerminal ==
    /\ (fx.pc \in {"report", "p_report"} /\ fx.env \in Envelopes)
          => fx.committed = "remediating"
    /\ \A id \in fixerWrote :
          (incidents[id] # NoDoc /\ incidents[id].status \in Terminal)
              => "remediation_started_at" \in DOMAIN incidents[id]

(* C29: for an envelope whose incident has no record, the Fixer creates a  *)
(* stub record and still executes the action, and the stub ends RESOLVED   *)
(* or FAILED according to the executor outcome, on the push endpoint and   *)
(* on the pull subscriber.                                                 *)
MissingIncidentGetsStub ==
    (fx.pc \in {"respond", "p_ack"} /\ fx.env \in Envelopes
       /\ fx.env.incident_id \notin {i \in DOMAIN incidents :
                                        incidents[i] # NoDoc /\ "started_at" \in DOMAIN incidents[i]})
      => /\ lastRun = [env |-> fx.env]
         /\ incidents[fx.env.incident_id] # NoDoc
         /\ incidents[fx.env.incident_id].status \in Terminal

(* C30: when handling a successfully deserialized envelope raised an      *)
(* exception, the handler does not acknowledge the message (it is          *)
(* negatively acknowledged or the error propagates), so the bus delivers   *)
(* it again.                                                               *)
HandlerExceptionNotAcked ==
    [][(fx.pc \in {"respond", "p_ack"} /\ fx.env \in Envelopes
          /\ fx.handler_raised /\ fx'.pc = "idle")
         => acked' = acked]_vars

(* the executor outcome the handler holds is a success *)
HandlerSucceeded(f) ==
    IF "status" \in DOMAIN f.result THEN f.result.status = "success"
    ELSE ResultSuccess(f.result)

(* the incident write or the audit write of the report step failed *)
StoreWriteFailed(f) == f.committed \notin Terminal \/ f.audit = "failed"

(* C31: when a store write (incident update or audit append) fails after   *)
(* the control plane was updated, the handler still completes and          *)
(* acknowledges, the result it reports is the executor's success result,   *)
(* and the service is left as the executor set it.                         *)
StoreFailureDoesNotPropagate ==
    [][/\ (fx.pc \in {"report", "p_report"} /\ fx.wrote /\ HandlerSucceeded(fx)
             /\ fx' # fx /\ StoreWriteFailed(fx'))
          => /\ fx'.pc \in {"respond", "p_ack"}
             /\ fx'.result = fx.result
             /\ svc' = svc /\ cpWrites' = cpWrites
       /\ (fx.pc \in {"respond", "p_ack"} /\ fx.env \in Envelopes /\ fx.wrote
             /\ StoreWriteFailed(fx) /\ fx'.pc = "idle")
          => /\ HandlerSucceeded(fx)
             /\ fx.env \in acked'
             /\ svc' = svc /\ cpWrites' = cpWrites]_vars

StoreFailureAfterMutationWitness ==
    /\ fx.pc = "respond"
    /\ fx.wrote
    /\ cpWrites > 0
    /\ fx.committed = "remediating"
    /\ fx.audit = "failed"
    /\ ResultSuccess(fx.result)

(* C32: two update_scaling calls on one service that overlap, one giving  *)
(* only min_instances and the other only max_instances, both take effect:  *)
(* after both complete the service has the new min and the new max, and    *)
(* min <= max.                                                             *)
ConcurrentScalingBothApplied ==
    \A p, q \in Callers :
        (/\ conc[p].pc = "done" /\ conc[q].pc = "done"
         /\ ~dry_run
         /\ conc[p].min_in # None /\ conc[p].max_in = None
         /\ conc[q].min_in = None /\ conc[q].max_in # None
         /\ ~(conc[p].raised /\ ~conc[p].wrote)
         /\ ~(conc[q].raised /\ ~conc[q].wrote))
          => /\ conc[p].wrote /\ conc[q].wrote
             /\ ~conc[p].raised /\ ~conc[q].raised
             /\ svc.min = ClampMin(conc[p].min_in.v)
             /\ svc.max = ClampMax(conc[q].max_in.v)
             /\ svc.min <= svc.max

(* C33: update_scaling changes only the bound(s) supplied and never the   *)
(* traffic split; rollback_traffic changes only the traffic split and      *)
(* never the scaling bounds.                                               *)
ExecutorFrame ==
    /\ lastExec.op = "update_scaling"
         => /\ svc.traffic = lastExec.before.traffic
            /\ lastExec.min_in = None => svc.min = lastExec.before.min
            /\ lastExec.max_in = None => svc.max = lastExec.before.max
    /\ lastExec.op = "rollback_traffic"
         => /\ svc.min = lastExec.before.min
            /\ svc.max = lastExec.before.max

OnlyMinChangedWitness ==
    /\ lastExec.op = "update_scaling"
    /\ lastExec.wrote
    /\ lastExec.min_in = IntV(3)
    /\ lastExec.max_in = None
    /\ svc.min = 3
    /\ lastExec.before.min # 3
    /\ svc.max = lastExec.before.max
    /\ svc.max = 20

(* the value a signal has when its query failed, and when it answered *)
SignalKept(q, value) == IF q = QueryFailed THEN value = 0 ELSE value = q.v
LatencyKept(q, value) ==
    IF q = QueryFailed \/ Falsy(q) THEN value = None ELSE value = q

ExactlyOneFailed(qs) == Cardinality({k \in DOMAIN qs : qs[k] = QueryFailed}) = 1

(* C34: when exactly one telemetry query of a scan fails, only that signal *)
(* is reported as zero or empty: the values of the queries that answered   *)
(* are kept in the metrics, and the scan does not raise.                   *)
OneFailedQueryZeroesOnlyItsSignal ==
    /\ (scan.fn = "scan_service" /\ ExactlyOneFailed(scan.queries))
         => /\ ~scan.raised
            /\ SignalKept(scan.queries[1], scan.metrics.request_count)
            /\ LatencyKept(scan.queries[2], scan.metrics.latency_p95)
            /\ SignalKept(scan.queries[3], scan.metrics.error_count)
    /\ scan.fn = "scan_services"
         => \A t \in DOMAIN scan.details :
               ExactlyOneFailed(scan.queries[t])
                 => /\ SignalKept(scan.queries[t][1], scan.details[t].request_count)
                    /\ SignalKept(scan.queries[t][2], scan.details[t].error_count)
                    /\ LatencyKept(scan.queries[t][3], scan.details[t].latency_p95)
                    /\ Len(scan.details[t].error_logs) =
                          (IF scan.queries[t][4] = QueryFailed THEN 0
                           ELSE scan.queries[t][4].v)

(* the metrics snapshot of a per-service scan result *)
MetricsOf(r) == IF "metrics" \in DOMAIN r THEN r.metrics ELSE r

(* e is 100 * errors / requests to two decimals (e in hundredths) *)
IsErrorRate(e, errors, requests) ==
    IF requests > 0
    THEN /\ 2 * (e * requests - 10000 * errors) <= requests
         /\ 2 * (10000 * errors - e * requests) <= requests
    ELSE e = 0

(* C35: every metrics snapshot a scan produces has                         *)
(* 0 <= error_count <= request_count, 0 <= error_rate <= 100, and          *)
(* error_rate = 100 * error_count / request_count to two decimals when     *)
(* request_count > 0 and 0 otherwise, also when queries failed.            *)
MetricsConsistent ==
    \A r \in ScanResults(scan) :
        LET m == MetricsOf(r)
        IN  /\ 0 <= m.error_count
            /\ m.error_count <= m.request_count
            /\ 0 <= m.error_rate /\ m.error_rate <= 100 * 100
            /\ IsErrorRate(m.error_rate, m.error_count, m.request_count)

(* a reply with a known action and a numeric confidence *)
WellFormedReply(reply) ==
    /\ reply.t = "json"
    /\ DOMAIN reply.data = {"action", "confidence"}
    /\ reply.data.action.t = "str"
    /\ Upper(reply.data.action.v) \in ActionTypeMembers
    /\ reply.data.confidence.t = "int"

(* C36: for a well-formed reply whose confidence is outside [0, 1] the     *)
(* Reasoner returns the reply's action with the confidence clamped to the  *)
(* nearest bound; every Recommendation has confidence in [0, 1]            *)
(* (hundredths: 0..100).                                                   *)
ConfidenceClamped ==
    reco.fn = "analyze_and_recommend"
      => /\ reco.result.confidence >= 0 /\ reco.result.confidence <= 100
         /\ (WellFormedReply(reco.reply)
               /\ reco.revision_info.previous_revision # None
               /\ (reco.reply.data.confidence.v < 0 \/ reco.reply.data.confidence.v > 100))
              => /\ reco.result.action = Upper(reco.reply.data.action.v)
                 /\ reco.result.confidence =
                       Max2(0, Min2(100, reco.reply.data.confidence.v))

(* the revisions of a service that are the latest or the one serving: the *)
(* revision of a LATEST traffic target, and a revision that receives all   *)
(* of the traffic                                                          *)
LatestOrServing(info) ==
    {info.traffic[k].revision : k \in {j \in DOMAIN info.traffic :
        /\ info.traffic[j].revision # ""
        /\ info.traffic[j].latest \/ info.traffic[j].percent = 100}}

(* C37: the previous-stable revision the Reasoner derives, and so the      *)
(* target of a ROLLBACK it recommends, is never the latest or currently    *)
(* serving revision.                                                       *)
PreviousRevisionNotCurrent ==
    (reco.fn = "analyze_and_recommend" /\ reco.info # FetchFailed)
      => /\ reco.revision_info.previous_revision # None
              => reco.revision_info.previous_revision.v \notin LatestOrServing(reco.info)
         /\ (reco.result.action = "ROLLBACK" /\ reco.result.target_revision # None)
              => reco.result.target_revision.v \notin LatestOrServing(reco.info)

UnhandledActionNoUpdate ==
    [][(/\ subscription = "push"
        /\ fx.pc \in {"execute", "report"}
        /\ fx.env.action_type \notin {"ROLLBACK", "SCALE_UP", "SCALE_DOWN"}
        /\ fx' # fx)
          => /\ svc' = svc
             /\ cpWrites' = cpWrites
             /\ (fx.pc = "report" /\ fx.committed = "remediating"
                   /\ fx'.committed # "remediating")
                  => LET d == incidents'[fx.env.incident_id]
                     IN  IF fx.env.action_type = "NONE"
                         THEN d # NoDoc /\ d.status = "resolved"
                         ELSE /\ d # NoDoc
                              /\ d.status = "failed"
                              /\ "error_message" \in DOMAIN d
                              /\ d.error_message = "Unknown action type"
      ]_vars

RedeployEndsFailedWitness ==
    /\ subscription = "push"
    /\ fx.pc = "respond"
    /\ fx.env \in Envelopes
    /\ fx.env.action_type = "REDEPLOY"
    /\ fx.committed = "failed"
    /\ incidents[fx.env.incident_id] # NoDoc
    /\ incidents[fx.env.incident_id].status = "failed"
    /\ "error_message" \in DOMAIN incidents[fx.env.incident_id]
    /\ incidents[fx.env.incident_id].error_message = "Unknown action type"
    /\ cpWrites = 0

====
